---- MODULE Spec2Model ----
(***************************************************************************)
(* A model of src/script.py: the weekly ActiveCampaign synchronisation     *)
(* job.  The script runs top to bottom: two bulk imports (welcome files,   *)
(* segmentation files), two collect-filter-reconcile stages (bounced and   *)
(* unsubscribed contacts) and the run-log upload.                          *)
(*                                                                         *)
(* Time is counted in whole seconds: time.sleep(1) is one Tick, and        *)
(* starts_now counts the requests started since the last Tick.             *)
(*                                                                         *)
(* The script reads two names that none of its statements binds: `url`     *)
(* (lines 217, 282) and `headers` (lines 99, 112).  Run as a program, the   *)
(* read raises NameError; the read succeeds only where the namespace the   *)
(* file is executed in already binds the name.  `namespace` is the set of   *)
(* these names that are bound, fixed for a run; both outcomes are kept.    *)
(*                                                                         *)
(* The records of the two imports are given by their serialized sizes, the *)
(* contacts of the API by their ids and dates.                             *)
(***************************************************************************)
EXTENDS Integers, Sequences, FiniteSets, TLC

VARIABLES
    pc,                 \* position of the main script
    error,              \* the exception that ended the run, or "none"
    namespace,          \* the free names of the script (url, headers) that are bound
    start_time,         \* line 20: when the run started
    current_date,       \* line 65, as a proleptic Gregorian ordinal
    source,             \* the import under way: "JO" (welcome) or "NO" (segmentation)
    to_import_from_JO,  \* line 160
    to_import_from_NO,  \* line 223
    pending_NO,         \* the segmentation rows in the folder, line 56
    list_index,         \* payload_parser's list_index, then payload_index
    i,                  \* loop index of the POST loop
    posted,             \* the bulk-import requests the API has received
    timer,              \* seconds the main script still sleeps
    starts_now,         \* requests to the marketing API started in this second
    kind,               \* "bounced" or "unsubbed"
    remote,             \* the contacts the marketing API holds, per kind
    tasks,              \* joblib's tasks of the Parallel call under way
    fetched,            \* the page requests the API has received
    list_response,      \* line 291 / 311
    df,                 \* df_contacts_bounced / df_contacts_unsubbed
    num_contacts,       \* len(df_contacts_bounced), len(df_contacts_unsubbed)
    remote_log,         \* the files named runtime_logs.csv in the log folder: none or one
    log_before,         \* remote_log as it was when the run started
    sheet               \* the segmentation rows mapped so far (Appeal, Package, listid)

ctlVars     == <<pc, error>>
envVars     == <<namespace, start_time, current_date, remote, pending_NO>>
importVars  == <<source, to_import_from_JO, to_import_from_NO, list_index, i, posted>>
clockVars   == <<timer, starts_now>>
collectVars == <<kind, tasks, fetched, list_response>>
filterVars  == <<df, num_contacts>>
logVars     == <<remote_log, log_before>>
vars == <<pc, error, namespace, start_time, current_date, source, to_import_from_JO,
          to_import_from_NO, pending_NO, list_index, i, posted, timer, starts_now, kind,
          remote, tasks, fetched, list_response, df, num_contacts, remote_log,
          log_before, sheet>>

(***************************************************************************)
(* Bounds of the model.                                                    *)
(***************************************************************************)
MaxRecords == 3
\* serialized sizes (bytes of JSON text) a contact record may have
RecordSizes == {90000, 200000}

Min(a, b) == IF a < b THEN a ELSE b
Last(s) == s[Len(s)]

RECURSIVE SumSizes(_)
SumSizes(s) == IF s = <<>> THEN 0 ELSE s[1].size + SumSizes(Tail(s))

\* Python's seq[lo:hi] for 0 <= lo: the elements at 0-based positions lo .. hi-1,
\* hi clamped to the length.
Slice(s, lo, hi) == SubSeq(s, lo + 1, Min(hi, Len(s)))

\* the k-th record of a list whose records have the sizes `sizes`
Records(sizes) == [k \in 1..Len(sizes) |-> [id |-> k, size |-> sizes[k]]]

RecordLists(n) ==
    UNION {{Records(f) : f \in [1..k -> RecordSizes]} : k \in 0..n}

(***************************************************************************)
(* Dates: datetime.date as its proleptic Gregorian ordinal.                *)
(***************************************************************************)
is_leap(y) == y % 4 = 0 /\ (y % 100 # 0 \/ y % 400 = 0)

days_before_year(y) ==
    (y - 1) * 365 + (y - 1) \div 4 - (y - 1) \div 100 + (y - 1) \div 400

days_in_month(y, m) ==
    IF m = 2 THEN (IF is_leap(y) THEN 29 ELSE 28)
    ELSE IF m \in {4, 6, 9, 11} THEN 30 ELSE 31

RECURSIVE days_before_month(_, _)
days_before_month(y, m) ==
    IF m = 1 THEN 0 ELSE days_before_month(y, m - 1) + days_in_month(y, m - 1)

\* datetime.date(y, m, d).toordinal()
toordinal(y, m, d) == days_before_year(y) + days_before_month(y, m) + d

weekday_from_sunday(ord) == ord % 7

\* datetime.date.weekday(): Monday is 0
weekday(ord) == (ord + 6) % 7

\* lines 67-73
lookback_days == 7
weekly_multiplier == 1
start_date == current_date - weekday(current_date) - lookback_days - 1
end_date == start_date + (7 * weekly_multiplier) + 1

(***************************************************************************)
(* Exceptions: nothing in the script catches one, so the run ends.         *)
(***************************************************************************)
Raise(exc) ==
    /\ pc' = "aborted"
    /\ error' = exc

(***************************************************************************)
(* payload_parser, lines 85-94.                                            *)
(***************************************************************************)
contacts == IF source = "JO" THEN to_import_from_JO ELSE to_import_from_NO

len_payload == Len(contacts)

\* len(json.dumps(list)): "[" and "]", the records, ", " between two records
json_dumps_len(s) ==
    IF s = <<>> THEN 2 ELSE 2 + SumSizes(s) + 2 * (Len(s) - 1)

\* sys.getsizeof of an ASCII str (json.dumps escapes non-ASCII): a 49-byte header
\* (CPython 3.11, 64 bit) and one byte per character
sys_getsizeof(n) == 49 + n

payload_size_bytes == sys_getsizeof(json_dumps_len(contacts))

\* int(360000 / payload_size_bytes * len_payload): the double-precision product
\* truncates to the exact quotient's floor for every input of the model
int_quotient(size, len) == (360000 * len) \div size

last_index_plus_two(li, size, len) == Last(li) + int_quotient(size, len) + 2

last_index(li, size, len) == Last(li) + int_quotient(size, len) + 1

clamp_omitted(li, len) == li

\* line 92
clamp(li, len) == [li EXCEPT ![Len(li)] = len]

\* line 212 / 277: payload_parser is entered, list_index = [0]
\* one iteration of the while loop, lines 89-91
payload_parser_loop ==
    /\ pc = "payload_parser"
    /\ Last(list_index) < len_payload
    /\ Len(list_index) <= len_payload + 2
    /\ list_index' = Append(list_index,
                            last_index(list_index, payload_size_bytes, len_payload))
    /\ UNCHANGED <<ctlVars, envVars, source, to_import_from_JO, to_import_from_NO,
                   i, posted, clockVars, collectVars, filterVars, logVars, sheet>>

\* the loop ends, lines 92-94; the POST loop starts at i = 0
payload_parser_return ==
    /\ pc = "payload_parser"
    /\ ~(Last(list_index) < len_payload)
    /\ list_index' = clamp(list_index, len_payload)
    /\ i' = 0
    /\ pc' = "post"
    /\ UNCHANGED <<error, envVars, source, to_import_from_JO, to_import_from_NO,
                   posted, clockVars, collectVars, filterVars, logVars, sheet>>

(***************************************************************************)
(* The POST loops, lines 213-220 and 278-285.                              *)
(***************************************************************************)
_payload == Slice(contacts, list_index[i + 1], list_index[i + 2])

\* requests.post(url, ...): no statement of the script binds `url`; evaluating
\* the argument raises NameError before any request is made
post_raise ==
    /\ pc = "post"
    /\ i < Len(list_index) - 1
    /\ "url" \notin namespace
    /\ Raise("NameError")
    /\ UNCHANGED <<envVars, importVars, clockVars, collectVars, filterVars,
                   logVars, sheet>>

post_send ==
    /\ pc = "post"
    /\ i < Len(list_index) - 1
    /\ "url" \in namespace
    /\ posted' = Append(posted, [source |-> source, contacts |-> _payload])
    /\ starts_now' = starts_now + 1
    /\ pc' = "post_wait"
    /\ UNCHANGED <<error, envVars, source, to_import_from_JO, to_import_from_NO,
                   list_index, i, timer, collectVars, filterVars, logVars, sheet>>

\* the response arrives; its status is not looked at (lines 217-219); sleep(1)
post_return ==
    /\ pc = "post_wait"
    /\ \E status \in {200, 400} :
        /\ timer' = 1
        /\ pc' = "post_sleep"
    /\ UNCHANGED <<error, envVars, importVars, starts_now, collectVars,
                   filterVars, logVars, sheet>>

post_next ==
    /\ pc = "post_sleep"
    /\ timer = 0
    /\ i' = i + 1
    /\ pc' = "post"
    /\ UNCHANGED <<error, envVars, source, to_import_from_JO, to_import_from_NO,
                   list_index, posted, clockVars, collectVars, filterVars,
                   logVars, sheet>>

\* lines 222-277: the welcome loop is over; the segmentation records are built
\* and payload_parser runs on them
segmentation_start ==
    /\ pc = "post"
    /\ ~(i < Len(list_index) - 1)
    /\ source = "JO"
    /\ source' = "NO"
    /\ to_import_from_NO' = pending_NO
    /\ list_index' = <<0>>
    /\ pc' = "payload_parser"
    /\ UNCHANGED <<error, envVars, to_import_from_JO, i, posted, clockVars,
                   collectVars, filterVars, logVars, sheet>>

\* line 286: both imports are over
imports_done ==
    /\ pc = "post"
    /\ ~(i < Len(list_index) - 1)
    /\ source = "NO"
    /\ pc' = "count"
    /\ kind' = "bounced"
    /\ UNCHANGED <<error, envVars, importVars, clockVars, tasks, fetched,
                   list_response, filterVars, logVars, sheet>>

(***************************************************************************)
(* The marketing API's contacts.  remote[kind].total contacts, ids          *)
(* 0 .. total-1 in the API's order; the first Len(recent) carry the dates   *)
(* of `recent`, the others an old date.                                    *)
(***************************************************************************)
OldDate == [ymd |-> <<2020, 1, 1>>, time |-> "T00:00:00-06:00"]

contact_at(k, id) ==
    [id |-> id,
     date |-> IF id < Len(remote[k].recent) THEN remote[k].recent[id + 1] ELSE OldDate]

\* GET /contacts?status=..&limit=l&offset=o: the ids of the page
page_of(k, offset, limit) ==
    [lo |-> Min(offset, remote[k].total), hi |-> Min(offset + limit, remote[k].total)]

(***************************************************************************)
(* Collect: the count request and process_contacts, lines 98-136, 288-291.  *)
(***************************************************************************)
\* math.ceil(int(total) / 100)
ceil_pages(total) == (total + 99) \div 100

QueuedTasks(args) ==
    [t \in 1..Len(args) |-> [st |-> "queued", tm |-> 0, arg |-> args[t], result |-> <<>>]]

Active == {t \in DOMAIN tasks : tasks[t].st \in {"request", "sleep"}}

\* Parallel(n_jobs = 5): tasks are handed out in the iterator's order, to at most
\* five workers at a time
CanStart(t) ==
    /\ tasks[t].st = "queued"
    /\ \A u \in 1..(t - 1) : tasks[u].st # "queued"
    /\ Cardinality(Active) < 5

\* line 288 / 308
count_send ==
    /\ pc = "count"
    /\ starts_now' = starts_now + 1
    /\ pc' = "count_wait"
    /\ UNCHANGED <<error, envVars, importVars, timer, collectVars, filterVars,
                   logVars, sheet>>

\* lines 290-291 / 310-311: iterator = range(pages); process_contacts is entered
count_return ==
    /\ pc = "count_wait"
    /\ tasks' = QueuedTasks([p \in 1..ceil_pages(remote[kind].total) |-> p - 1])
    /\ pc' = "process_contacts"
    /\ UNCHANGED <<error, envVars, importVars, clockVars, kind, fetched,
                   list_response, filterVars, logVars, sheet>>

\* get_bounced_contacts / get_unsubbed_contacts, lines 99 and 112: `headers` is
\* bound by no statement of the script; the worker raises NameError, which
\* Parallel raises again in the main script
fetch_raise ==
    /\ pc = "process_contacts"
    /\ \E t \in DOMAIN tasks : CanStart(t)
    /\ "headers" \notin namespace
    /\ Raise("NameError")
    /\ UNCHANGED <<envVars, importVars, clockVars, collectVars, filterVars,
                   logVars, sheet>>

\* params = {"limit": 100, "offset": 100 * index}
offset_of(index) == 100 * index

fetch_send ==
    /\ pc = "process_contacts"
    /\ "headers" \in namespace
    /\ \E t \in DOMAIN tasks :
        /\ CanStart(t)
        /\ fetched' = Append(fetched, [kind |-> kind, limit |-> 100,
                                       offset |-> offset_of(tasks[t].arg)])
        /\ tasks' = [tasks EXCEPT ![t].st = "request"]
    /\ starts_now' = starts_now + 1
    /\ UNCHANGED <<ctlVars, envVars, importVars, timer, kind, list_response,
                   filterVars, logVars, sheet>>

\* the page arrives and is projected; time.sleep(1), lines 101-105 / 114-118
fetch_return ==
    /\ pc = "process_contacts"
    /\ \E t \in DOMAIN tasks :
        /\ tasks[t].st = "request"
        /\ tasks' = [tasks EXCEPT ![t] =
                        [st |-> "sleep", tm |-> 1, arg |-> @.arg,
                         result |-> page_of(kind, offset_of(@.arg), 100)]]
    /\ UNCHANGED <<ctlVars, envVars, importVars, clockVars, kind, fetched,
                   list_response, filterVars, logVars, sheet>>

\* the worker's function returns, line 107 / 120 / 147
task_done ==
    /\ pc \in {"process_contacts", "process_cons_id"}
    /\ \E t \in DOMAIN tasks :
        /\ tasks[t].st = "sleep"
        /\ tasks[t].tm = 0
        /\ tasks' = [tasks EXCEPT ![t].st = "done"]
    /\ UNCHANGED <<ctlVars, envVars, importVars, clockVars, kind, fetched,
                   list_response, filterVars, logVars, sheet>>

\* Parallel returns the results in the order of the iterator
gathered == [t \in DOMAIN tasks |-> tasks[t].result]

\* lines 126-136: process_contacts returns
process_contacts_return ==
    /\ pc = "process_contacts"
    /\ \A t \in DOMAIN tasks : tasks[t].st = "done"
    /\ list_response' = gathered
    /\ pc' = "collate"
    /\ UNCHANGED <<error, envVars, importVars, clockVars, kind, tasks, fetched,
                   filterVars, logVars, sheet>>

(***************************************************************************)
(* Filter and reconcile, lines 292-301 / 312-323.                          *)
(***************************************************************************)
RECURSIVE flatten(_)
\* [i for j in list_response for i in j]
flatten(pages) ==
    IF pages = <<>> THEN <<>>
    ELSE [n \in 1..(pages[1].hi - pages[1].lo) |-> contact_at(kind, pages[1].lo + n - 1)]
         \o flatten(Tail(pages))

\* .str.split("T").str[0]
split_T_0(raw) == [ymd |-> raw.ymd, time |-> ""]

\* pd.to_datetime(...).dt.date
to_date(raw) == toordinal(raw.ymd[1], raw.ymd[2], raw.ymd[3])

\* line 293 (bounced_date) / line 314 (udate)
parse_date(raw) ==
    IF kind = "bounced" THEN to_date(raw) ELSE to_date(split_T_0(raw))

\* a frame built from no rows has no columns: line 293 / 313 raises KeyError
collate_raise ==
    /\ pc = "collate"
    /\ flatten(list_response) = <<>>
    /\ Raise("KeyError")
    /\ UNCHANGED <<envVars, importVars, clockVars, collectVars, filterVars,
                   logVars, sheet>>

\* lines 292-293 / 312-314
collate ==
    /\ pc = "collate"
    /\ flatten(list_response) # <<>>
    /\ df' = [n \in 1..Len(flatten(list_response)) |->
                 [id |-> flatten(list_response)[n].id,
                  date |-> parse_date(flatten(list_response)[n].date)]]
    /\ pc' = "filter"
    /\ UNCHANGED <<error, envVars, importVars, clockVars, collectVars,
                   num_contacts, logVars, sheet>>

in_range_closed(d, lo, hi) == d >= lo /\ d < hi

\* (date > start_date) & (date < end_date)
in_range(d, lo, hi) == d > lo /\ d < hi

keep(row) == in_range(row.date, start_date, end_date)

\* lines 294-296 / 315-317: the rows in range; process_cons_id is entered
filter_rows ==
    /\ pc = "filter"
    /\ df' = SelectSeq(df, keep)
    /\ tasks' = QueuedTasks([n \in 1..Len(SelectSeq(df, keep)) |->
                                 SelectSeq(df, keep)[n].id])
    /\ pc' = "process_cons_id"
    /\ UNCHANGED <<error, envVars, importVars, clockVars, kind, fetched,
                   list_response, num_contacts, logVars, sheet>>

\* get_contacts_cons_id, lines 141-142
lookup_send ==
    /\ pc = "process_cons_id"
    /\ \E t \in DOMAIN tasks :
        /\ CanStart(t)
        /\ tasks' = [tasks EXCEPT ![t].st = "request"]
    /\ starts_now' = starts_now + 1
    /\ UNCHANGED <<ctlVars, envVars, importVars, timer, kind, fetched,
                   list_response, filterVars, logVars, sheet>>

\* lines 143-145: the value of field "2" (here: named after the contact), sleep(1)
lookup_return ==
    /\ pc = "process_cons_id"
    /\ \E t \in DOMAIN tasks :
        /\ tasks[t].st = "request"
        /\ tasks' = [tasks EXCEPT ![t] =
                        [st |-> "sleep", tm |-> 1, arg |-> @.arg,
                         result |-> <<"cons", @.arg>>]]
    /\ UNCHANGED <<ctlVars, envVars, importVars, clockVars, kind, fetched,
                   list_response, filterVars, logVars, sheet>>

\* lines 296-305: the ids are joined and the table written; after the bounced
\* stage the script sleeps three seconds
bounced_done ==
    /\ pc = "process_cons_id"
    /\ kind = "bounced"
    /\ \A t \in DOMAIN tasks : tasks[t].st = "done"
    /\ df' = [n \in DOMAIN df |-> [id |-> df[n].id, date |-> df[n].date,
                                   cons_id |-> gathered[n]]]
    /\ num_contacts' = [num_contacts EXCEPT !.bounced = Len(df)]
    /\ timer' = 3
    /\ pc' = "pause"
    /\ UNCHANGED <<error, envVars, importVars, starts_now, collectVars, logVars,
                   sheet>>

\* line 307
unsubbed_start ==
    /\ pc = "pause"
    /\ timer = 0
    /\ kind' = "unsubbed"
    /\ pc' = "count"
    /\ UNCHANGED <<error, envVars, importVars, clockVars, tasks, fetched,
                   list_response, filterVars, logVars, sheet>>

\* lines 317-325
unsubbed_done ==
    /\ pc = "process_cons_id"
    /\ kind = "unsubbed"
    /\ \A t \in DOMAIN tasks : tasks[t].st = "done"
    /\ df' = [n \in DOMAIN df |-> [id |-> df[n].id, date |-> df[n].date,
                                   cons_id |-> gathered[n]]]
    /\ num_contacts' = [num_contacts EXCEPT !.unsubbed = Len(df)]
    /\ pc' = "log"
    /\ UNCHANGED <<error, envVars, importVars, clockVars, collectVars, logVars,
                   sheet>>

(***************************************************************************)
(* The run log, lines 325-352.                                             *)
(***************************************************************************)
LogColumns == <<"executed_at_AEST", "num_contacts_welcome", "num_contacts_all_segments",
                "date_range_bounced_unsubbed_contacts", "num_contacts_bounced",
                "num_contacts_unsubbed">>

\* lines 326-338 (duration_in_mins left out)
df_logs ==
    <<[executed_at_AEST |-> start_time,
       num_contacts_welcome |-> Len(to_import_from_JO),
       num_contacts_all_segments |-> Len(to_import_from_NO),
       date_range_bounced_unsubbed_contacts |-> <<start_date, end_date>>,
       num_contacts_bounced |-> num_contacts.bounced,
       num_contacts_unsubbed |-> num_contacts.unsubbed]>>

\* DataFrame.to_csv(buffer, index = False, header = True)
to_csv(frame) == [header |-> LogColumns, lines |-> frame]

\* pd.read_csv: the lines after the header
read_csv(file) == file.lines

\* DataFrame.append(other, ignore_index = True): a new frame; self is unchanged
DataFrame_append(frame, other) == frame \o other

at_log_step_or_aborted == pc \in {"log", "aborted"}

\* the statements from line 325 on run once everything before them has run
at_log_step == pc = "log"

\* lines 341-345: _df_logs.append(df_logs, ...) is not assigned to anything;
\* the frame written to the buffer is _df_logs as read
uploaded(old, new) == old

\* lines 340-346
log_update ==
    /\ at_log_step
    /\ remote_log # <<>>
    /\ remote_log' = <<to_csv(uploaded(read_csv(remote_log[1]), df_logs))>>
    /\ pc' = "done"
    /\ UNCHANGED <<error, envVars, importVars, clockVars, collectVars, filterVars,
                   log_before, sheet>>

\* line 342 where DataFrame has no append (pandas 2 removed it): AttributeError
\* before anything is uploaded
log_append_raise ==
    /\ at_log_step
    /\ remote_log # <<>>
    /\ Raise("AttributeError")
    /\ UNCHANGED <<envVars, importVars, clockVars, collectVars, filterVars,
                   logVars, sheet>>

\* lines 348-352
log_create ==
    /\ at_log_step
    /\ remote_log = <<>>
    /\ remote_log' = <<to_csv(df_logs)>>
    /\ pc' = "done"
    /\ UNCHANGED <<error, envVars, importVars, clockVars, collectVars, filterVars,
                   log_before, sheet>>

(***************************************************************************)
(* Time.                                                                   *)
(***************************************************************************)
Tick ==
    /\ timer > 0 \/ starts_now > 0
       \/ \E t \in DOMAIN tasks : tasks[t].st = "sleep" /\ tasks[t].tm > 0
    /\ timer' = IF timer > 0 THEN timer - 1 ELSE 0
    /\ starts_now' = 0
    /\ tasks' = [t \in DOMAIN tasks |->
                    IF tasks[t].st = "sleep" /\ tasks[t].tm > 0
                    THEN [tasks[t] EXCEPT !.tm = @ - 1] ELSE tasks[t]]
    /\ UNCHANGED <<ctlVars, envVars, importVars, kind, fetched, list_response,
                   filterVars, logVars, sheet>>

(***************************************************************************)
(* The state a run starts in.                                              *)
(***************************************************************************)
FreeNames == {"url", "headers"}

NoContacts == [total |-> 0, recent |-> <<>>]

\* lines 159-212: the welcome records are built and payload_parser is entered
RunStart ==
    /\ pc = "payload_parser"
    /\ error = "none"
    /\ source = "JO"
    /\ to_import_from_NO = <<>>
    /\ list_index = <<0>>
    /\ i = 0
    /\ posted = <<>>
    /\ timer = 0
    /\ starts_now = 0
    /\ kind = "bounced"
    /\ tasks = <<>>
    /\ fetched = <<>>
    /\ list_response = <<>>
    /\ df = <<>>
    /\ num_contacts = [bounced |-> 0, unsubbed |-> 0]
    /\ sheet = <<>>

\* line 288: both folders were empty, nothing was imported
CollectStart ==
    /\ pc = "count"
    /\ error = "none"
    /\ source = "NO"
    /\ to_import_from_JO = <<>>
    /\ to_import_from_NO = <<>>
    /\ pending_NO = <<>>
    /\ list_index = <<0>>
    /\ i = 0
    /\ posted = <<>>
    /\ timer = 0
    /\ starts_now = 0
    /\ kind = "bounced"
    /\ tasks = <<>>
    /\ fetched = <<>>
    /\ list_response = <<>>
    /\ df = <<>>
    /\ num_contacts = [bounced |-> 0, unsubbed |-> 0]
    /\ sheet = <<>>
    /\ start_time = 1
    /\ remote_log = <<>>
    /\ log_before = <<>>

(***************************************************************************)
(* The two bulk imports on their own.                                      *)
(***************************************************************************)
InitImport ==
    /\ RunStart
    /\ to_import_from_JO \in RecordLists(MaxRecords)
    /\ pending_NO \in RecordLists(MaxRecords)
    /\ namespace \in SUBSET FreeNames
    /\ start_time = 1
    /\ current_date = toordinal(2024, 1, 29)
    /\ remote = [bounced |-> NoContacts, unsubbed |-> NoContacts]
    /\ remote_log = <<>>
    /\ log_before = <<>>

NextImport ==
    \/ payload_parser_loop
    \/ payload_parser_return
    \/ post_raise
    \/ post_send
    \/ post_return
    \/ post_next
    \/ segmentation_start
    \/ imports_done
    \/ Tick

SpecImport == InitImport /\ [][NextImport]_vars

(***************************************************************************)
(* The paged collection on its own: totals of up to MaxPages pages.        *)
(***************************************************************************)
MaxPages == 6

Totals == {0, 1, 100, 101, 100 * MaxPages - 99, 100 * MaxPages}

InitCollect ==
    /\ CollectStart
    /\ namespace \in SUBSET FreeNames
    /\ current_date = toordinal(2024, 1, 29)
    /\ \E total \in Totals :
          remote = [bounced |-> [total |-> total, recent |-> <<>>],
                    unsubbed |-> NoContacts]

NextCollect ==
    \/ count_send
    \/ count_return
    \/ fetch_raise
    \/ fetch_send
    \/ fetch_return
    \/ task_done
    \/ process_contacts_return
    \/ Tick

SpecCollect == InitCollect /\ [][NextCollect]_vars

(***************************************************************************)
(* The date filter on its own: one page of contacts dated around the       *)
(* windows of the run dates 2024-01-29, 2024-01-30, ...                    *)
(***************************************************************************)
MaxContacts == 2
RunDays == 8

RunDates == {toordinal(2024, 1, 29) + n : n \in 0..(RunDays - 1)}

\* the days at and next to the ends of the windows, across the end of the month
ContactDays ==
    {<<2024, 1, d>> : d \in {27, 28, 29, 31}} \cup {<<2024, 2, d>> : d \in {1, 4, 5, 6}}

\* bounced_date is a date; udate carries a time after the "T"
RawDate(k, ymd) ==
    [ymd |-> ymd, time |-> IF k = "bounced" THEN "" ELSE "T09:30:00-06:00"]

ContactLists(k, days, n) ==
    UNION {{[j \in 1..len |-> RawDate(k, f[j])] : f \in [1..len -> days]} : len \in 0..n}

OneOldContact == [total |-> 1, recent |-> <<>>]

\* line 288; the contacts of one kind are dated around the window, the other
\* kind holds one old contact
InitFilter ==
    /\ CollectStart
    /\ namespace = FreeNames
    /\ current_date \in RunDates
    /\ \/ \E l \in ContactLists("bounced", ContactDays, MaxContacts) :
             remote = [bounced |-> [total |-> Len(l), recent |-> l],
                       unsubbed |-> OneOldContact]
       \/ \E l \in ContactLists("unsubbed", ContactDays, MaxContacts) :
             remote = [bounced |-> OneOldContact,
                       unsubbed |-> [total |-> Len(l), recent |-> l]]

NextFilter ==
    \/ count_send
    \/ count_return
    \/ fetch_send
    \/ fetch_return
    \/ task_done
    \/ process_contacts_return
    \/ collate_raise
    \/ collate
    \/ filter_rows
    \/ lookup_send
    \/ lookup_return
    \/ bounced_done
    \/ unsubbed_start
    \/ unsubbed_done
    \/ Tick

SpecFilter == InitFilter /\ [][NextFilter]_vars

(***************************************************************************)
(* The segmentation mapper, lines 230-249, one row at a time.  A string is  *)
(* the sequence of its parts; "NonInsight" is <<"Non", "Insight">>.        *)
(***************************************************************************)
MaxAppealLen == 2
MaxPackageLen == 2

Strings(alphabet, n) == UNION {[1..len -> alphabet] : len \in 0..n}

\* Series.str.contains(pat)
str_contains(str, pat) ==
    \E at \in 1..(Len(str) - Len(pat) + 1) : SubSeq(str, at, at + Len(pat) - 1) = pat

\* np.select(condlist, choicelist): the choice of the first condition that
\* holds, and the default 0 where none does
np_select(condlist, choicelist) ==
    IF \E c \in DOMAIN condlist : condlist[c]
    THEN choicelist[CHOOSE c \in DOMAIN condlist :
                        condlist[c] /\ \A b \in 1..(c - 1) : ~condlist[b]]
    ELSE "0"

listid(Appeal, Package) ==
    np_select(<<str_contains(Appeal, <<"AU">>) /\ str_contains(Package, <<"Active">>),
                str_contains(Appeal, <<"AU">>) /\ str_contains(Package, <<"Lapsed">>),
                str_contains(Appeal, <<"AU">>) /\ str_contains(Package, <<"Insight">>),
                str_contains(Appeal, <<"AU">>) /\ str_contains(Package, <<"Non", "Insight">>),
                str_contains(Appeal, <<"NZ">>) /\ str_contains(Package, <<"Active">>),
                str_contains(Appeal, <<"NZ">>) /\ str_contains(Package, <<"Lapsed">>),
                str_contains(Appeal, <<"NZ">>) /\ str_contains(Package, <<"Other">>)>>,
              <<"199", "200", "236", "237", "256", "254", "258">>)

\* line 230 on one row of the file
map_row ==
    /\ pc = "map"
    /\ sheet = <<>>
    /\ \E Appeal \in Strings({"AU", "NZ", "RG"}, MaxAppealLen),
          Package \in Strings({"Active", "Lapsed", "Non", "Insight", "Other"}, MaxPackageLen) :
          sheet' = <<[Appeal |-> Appeal, Package |-> Package,
                      listid |-> listid(Appeal, Package)]>>
    /\ UNCHANGED <<ctlVars, envVars, importVars, clockVars, collectVars,
                   filterVars, logVars>>

\* line 224: the welcome import is over, the first segmentation file is read
InitMapper ==
    /\ pc = "map"
    /\ error = "none"
    /\ source = "NO"
    /\ to_import_from_JO = <<>>
    /\ to_import_from_NO = <<>>
    /\ pending_NO = <<>>
    /\ list_index = <<0>>
    /\ i = 0
    /\ posted = <<>>
    /\ timer = 0
    /\ starts_now = 0
    /\ kind = "bounced"
    /\ tasks = <<>>
    /\ fetched = <<>>
    /\ list_response = <<>>
    /\ df = <<>>
    /\ num_contacts = [bounced |-> 0, unsubbed |-> 0]
    /\ sheet = <<>>
    /\ namespace = FreeNames
    /\ start_time = 1
    /\ current_date = toordinal(2024, 1, 29)
    /\ remote = [bounced |-> NoContacts, unsubbed |-> NoContacts]
    /\ remote_log = <<>>
    /\ log_before = <<>>

NextMapper == map_row

SpecMapper == InitMapper /\ [][NextMapper]_vars

(***************************************************************************)
(* A whole run, on small inputs.                                           *)
(***************************************************************************)
MaxRunRecords == 1
MaxRunContacts == 1
MaxLogRows == 3

RunRecordLists == {Records([k \in 1..n |-> 90000]) : n \in 0..MaxRunRecords}

\* one day inside the window of the run date 2024-01-29 and one outside
RunContactDays == {<<2024, 1, 27>>, <<2024, 1, 29>>}

RunRemotes(k) ==
    {[total |-> Len(l), recent |-> l] : l \in ContactLists(k, RunContactDays, MaxRunContacts)}

\* the rows earlier runs left in runtime_logs.csv
PriorRows(n) ==
    [r \in 1..n |-> [executed_at_AEST |-> r,
                     num_contacts_welcome |-> 0,
                     num_contacts_all_segments |-> 0,
                     date_range_bounced_unsubbed_contacts |-> <<0, 8>>,
                     num_contacts_bounced |-> 0,
                     num_contacts_unsubbed |-> 0]]

Init ==
    /\ RunStart
    /\ to_import_from_JO \in RunRecordLists
    /\ pending_NO \in RunRecordLists
    /\ namespace \in SUBSET FreeNames
    /\ current_date = toordinal(2024, 1, 29)
    /\ remote \in [bounced : RunRemotes("bounced"), unsubbed : RunRemotes("unsubbed")]
    /\ \E n \in 0..MaxLogRows :
          /\ remote_log = IF n = 0 THEN <<>> ELSE <<to_csv(PriorRows(n))>>
          /\ start_time = n + 1
    /\ log_before = remote_log

Next ==
    \/ payload_parser_loop
    \/ payload_parser_return
    \/ post_raise
    \/ post_send
    \/ post_return
    \/ post_next
    \/ segmentation_start
    \/ imports_done
    \/ count_send
    \/ count_return
    \/ fetch_raise
    \/ fetch_send
    \/ fetch_return
    \/ task_done
    \/ process_contacts_return
    \/ collate_raise
    \/ collate
    \/ filter_rows
    \/ lookup_send
    \/ lookup_return
    \/ bounced_done
    \/ unsubbed_start
    \/ unsubbed_done
    \/ log_update
    \/ log_append_raise
    \/ log_create
    \/ Tick

Spec == Init /\ [][Next]_vars

(***************************************************************************)
(* Properties.                                                             *)
(***************************************************************************)
StrictlyIncreasing(li) == \A k \in 1..(Len(li) - 1) : li[k] < li[k + 1]

RECURSIVE SlicesUpTo(_, _, _)
\* the first k slices [li[1], li[2]), ..., [li[k], li[k+1]) of s, concatenated
SlicesUpTo(s, li, k) ==
    IF k = 0 THEN <<>>
    ELSE SlicesUpTo(s, li, k - 1) \o Slice(s, li[k], li[k + 1])

\* the i-th request body the POST loop builds, for i = 1 .. Len(li) - 1
ExpectedPosts(src, s, li) ==
    [k \in 1..(Len(li) - 1) |-> [source |-> src, contacts |-> Slice(s, li[k], li[k + 1])]]

RECURSIVE ConcatPosted(_)
\* the records of the requests ps, in the order received
ConcatPosted(ps) ==
    IF ps = <<>> THEN <<>> ELSE ps[1].contacts \o ConcatPosted(Tail(ps))

PostedOf(src) == SelectSeq(posted, LAMBDA p : p.source = src)

ParserReturned == pc \in {"post", "post_wait", "post_sleep", "count"}

\* C2: payload_parser ends within N iterations and returns boundaries that start
\* at 0, end at N and strictly increase, so the POST loop's slices concatenate to
\* the record list; for N = 0 it returns [0] and no batch is sent.
C2_Partition ==
    /\ pc = "payload_parser" =>
          /\ list_index[1] = 0
          /\ Len(list_index) <= len_payload + 1
          /\ StrictlyIncreasing(list_index)
    /\ ParserReturned =>
          /\ list_index[1] = 0
          /\ Last(list_index) = len_payload
          /\ StrictlyIncreasing(list_index)
          /\ SlicesUpTo(contacts, list_index, Len(list_index) - 1) = contacts
          /\ len_payload = 0 => list_index = <<0>> /\ PostedOf(source) = <<>>

C2_Witness ==
    /\ pc = "post"
    /\ source = "NO"
    /\ len_payload = 3
    /\ list_index = <<0, 2, 3>>

Uniform(s) == \A k \in 1..Len(s) : s[k].size = s[1].size

SliceBytes(k) == (list_index[k + 1] - list_index[k]) * contacts[1].size

ImportEnded == pc \in {"count", "aborted"}

\* C5: once a run is past its imports (or has ended), every slice of each source
\* has been POSTed exactly once, in slice order.
C5_Claim ==
    ImportEnded =>
        /\ PostedOf(source) = ExpectedPosts(source, contacts, list_index)
        /\ ConcatPosted(PostedOf("JO")) = to_import_from_JO
        /\ ConcatPosted(PostedOf("NO")) = to_import_from_NO

\* the rows of the log folder's runtime_logs.csv
LogRows(files) == IF files = <<>> THEN <<>> ELSE read_csv(files[1])

\* C1: a run that reaches the log step leaves one runtime_logs.csv holding the
\* rows there were before, in order, followed by the one row of this run.
C1_Claim ==
    pc = "done" =>
        /\ Len(remote_log) = 1
        /\ remote_log[1].header = LogColumns
        /\ LogRows(remote_log) = LogRows(log_before) \o df_logs

\* the number of pages of a total: the least n with 100 * n >= total
PagesOf(total) == CHOOSE n \in 0..total : 100 * n >= total /\ 100 * (n - 1) < total

FetchesAt(k, offset) ==
    {n \in DOMAIN fetched : fetched[n].kind = k /\ fetched[n].offset = offset}

\* C4: once process_contacts has ended, every page index 0 .. ceil(T/100)-1 has
\* been fetched exactly once (offset 100 * index, limit 100), nothing else has
\* been fetched, and the list returned holds the pages in index order.
C4_Claim ==
    (pc \in {"collate", "aborted"}) =>
        /\ \A p \in 0..(PagesOf(remote[kind].total) - 1) :
              Cardinality(FetchesAt(kind, 100 * p)) = 1
        /\ Len(fetched) = PagesOf(remote[kind].total)
        /\ \A n \in DOMAIN fetched : fetched[n].limit = 100
        /\ pc = "collate" =>
              /\ Len(list_response) = PagesOf(remote[kind].total)
              /\ \A p \in DOMAIN list_response :
                    list_response[p] = page_of(kind, 100 * (p - 1), 100)

\* C8: no more than 5 requests to the marketing API start within one second.
C8_Claim == starts_now <= 5

\* the calendar day a raw date names
DayOf(raw) == toordinal(raw.ymd[1], raw.ymd[2], raw.ymd[3])

KeptIds == {df[n].id : n \in DOMAIN df}

\* C6: a contact is kept iff start_date < its date < end_date, the kept contacts
\* keep their order, and for the window 2024-01-08 .. 2024-01-16 the 8th and the
\* 16th are out, the 9th and the 15th are in.
C6_Filter ==
    /\ pc = "process_cons_id" =>
          /\ \A id \in 0..(remote[kind].total - 1) :
                id \in KeptIds <=>
                    /\ start_date < DayOf(contact_at(kind, id).date)
                    /\ DayOf(contact_at(kind, id).date) < end_date
          /\ \A n \in 1..(Len(df) - 1) : df[n].id < df[n + 1].id
    /\ ~in_range(toordinal(2024, 1, 8), toordinal(2024, 1, 8), toordinal(2024, 1, 16))
    /\ in_range(toordinal(2024, 1, 9), toordinal(2024, 1, 8), toordinal(2024, 1, 16))
    /\ in_range(toordinal(2024, 1, 15), toordinal(2024, 1, 8), toordinal(2024, 1, 16))
    /\ ~in_range(toordinal(2024, 1, 16), toordinal(2024, 1, 8), toordinal(2024, 1, 16))

\* two contacts dated start_date and the day after: only the second is kept
C6_Witness ==
    /\ pc = "process_cons_id"
    /\ kind = "unsubbed"
    /\ remote[kind].total = 2
    /\ DayOf(contact_at(kind, 0).date) = start_date
    /\ DayOf(contact_at(kind, 1).date) = start_date + 1
    /\ KeptIds = {1}

\* the Monday of the run date's week; 2024-01-29 is a Monday
MondayOf(d) == CHOOSE m \in (d - 6)..d : m % 7 = toordinal(2024, 1, 29) % 7

\* C10: start_date is the run date less its weekday less 8 days, end_date is 8
\* days later, and the dates that pass the filter are the 7 days of the week
\* before the run date's week, whatever the weekday of the run date.
C10_Window ==
    /\ weekday(current_date) \in 0..6
    /\ start_date = current_date - weekday(current_date) - 8
    /\ end_date = start_date + 8
    /\ {d \in (current_date - 21)..(current_date + 7) : keep([date |-> d])}
          = (MondayOf(current_date) - 7)..(MondayOf(current_date) - 1)

\* a run on Sunday 2024-02-04 keeps a contact of Monday 2024-01-22's week
C10_Witness ==
    /\ pc = "process_cons_id"
    /\ current_date = toordinal(2024, 2, 4)
    /\ weekday(current_date) = 6
    /\ Len(df) = 1
    /\ df[1].date = toordinal(2024, 1, 28)

\* C7: a row whose Appeal contains AU and whose Package contains NonInsight
\* gets list-id 237.
C7_Claim ==
    \A n \in DOMAIN sheet :
        (str_contains(sheet[n].Appeal, <<"AU">>)
            /\ str_contains(sheet[n].Package, <<"Non", "Insight">>))
        => sheet[n].listid = "237"

\* C9: the log is read and written only at the end of a run whose imports and
\* stages are complete; until then, and in a run that an exception ended, the
\* log folder holds what it held when the run started.
C9_LogUntouched ==
    /\ (pc # "done" \/ error # "none") => remote_log = log_before
    /\ pc \in {"log", "done"} =>
          /\ ConcatPosted(PostedOf("JO")) = to_import_from_JO
          /\ ConcatPosted(PostedOf("NO")) = to_import_from_NO
          /\ kind = "unsubbed"
          /\ \A t \in DOMAIN tasks : tasks[t].st = "done"
          /\ \A k \in {"bounced", "unsubbed"} : FetchesAt(k, 0) # {}

\* a run that delivered a batch and then failed, with a log already there
C9_Witness ==
    /\ pc = "aborted"
    /\ posted # <<>>
    /\ log_before # <<>>
    /\ remote_log = log_before

====
